---- MODULE Spec2Model ----
(***************************************************************************)
(* pygameui: the Component / Button / ColorToggler event and state model   *)
(* of src/ui.py (src/buttons.py repeats Button and ColorToggler verbatim). *)
(* One component is constructed, then driven by set_pos, mouse clicks,     *)
(* mouse motion, update(elapsed_time), render and set_callback.            *)
(***************************************************************************)
EXTENDS Integers, Sequences, FiniteSets

(* ------------------------------ bounds -------------------------------- *)
\* mouse coordinates range over 0..MaxCoord on both axes
MaxCoord == 2
\* a ColorToggler's colour list has 1..MaxColors entries
MaxColors == 2
\* update's elapsed_time is a multiple of Tick, from -Tick to MaxTicks*Tick
Tick == 50
MaxTicks == 4
\* negative elapsed_time may raise the cooldown up to COOLDOWN + MaxOver*Tick
MaxOver == 1
\* widths of components and labels in the geometry specification: 1..MaxSize
MaxSize == 3

(* ------------------------- program constants --------------------------- *)
\* the fixed cooldown duration set by Button._on_click
COOLDOWN == 150

(* ------------------------------ values -------------------------------- *)
\* Python's None
None == "None"
\* Style objects are compared by identity; three distinct ones are enough
STYLE_NORMAL == "style"
STYLE_HOVERED == "style_hovered"
STYLE_ONCLICK == "style_onclick"
\* callbacks that may be bound to a button
Callbacks == {"f", "g"}

Points == (0..MaxCoord) \X (0..MaxCoord)
\* the "no point" argument of an operation that takes none
NoPoint == <<-1, -1>>
Origins == {<<0, 0>>, <<1, 1>>}
\* the size of a component and, for a button, of its label (font.size(text))
Shapes == {[size |-> <<2, 1>>, text |-> <<1, 1>>],
           [size |-> <<1, 2>>, text |-> <<3, 1>>]}
Elapsed == {k * Tick : k \in (-1)..MaxTicks}
\* the shapes of the geometry specification: every width and label width,
\* with a height and label height of each parity
GeomShapes ==
    {[size |-> <<w, hs[1]>>, text |-> <<tw, hs[2]>>] :
        w \in 1..MaxSize, tw \in 1..MaxSize,
        hs \in {<<1, 1>>, <<2, 1>>, <<1, 2>>}}
\* colour lists: n distinct Color objects, named by the numbers 1..n
ColorLists == {[i \in 1..n |-> i] : n \in 1..MaxColors}

(* --------------------------- pygame's Rect ----------------------------- *)
\* a rect that has not been set
NoRect == [x |-> -1, y |-> -1, w |-> 0, h |-> 0]

\* int() of the float n/2: truncation toward zero
TruncHalf(n) == IF n >= 0 THEN n \div 2 ELSE -((-n) \div 2)

Rect(pos, sz) == [x |-> pos[1], y |-> pos[2], w |-> sz[1], h |-> sz[2]]

centerx(r) == r.x + (r.w \div 2)

centery(r) == r.y + (r.h \div 2)

collidepoint_InclusiveEdges(r, p) ==
    /\ r.x <= p[1] /\ p[1] <= r.x + r.w
    /\ r.y <= p[2] /\ p[2] <= r.y + r.h

\* left and top edges are inside, right and bottom edges are outside
collidepoint(r, p) ==
    /\ r.x <= p[1] /\ p[1] < r.x + r.w
    /\ r.y <= p[2] /\ p[2] < r.y + r.h

(* ------------------------------- state -------------------------------- *)
VARIABLES
    kind,            \* the class constructed: Component, Button, ColorToggler
    size,            \* Component.size
    rect,            \* Component.rect, NoRect for None
    style,           \* Component.style (the normal style)
    style_hovered,   \* Component.style_hovered
    style_on_click,  \* Button.style_on_click
    is_hovered,      \* Component.is_hovered
    active_style,    \* Component.active_style
    callback,        \* Button.callback
    _cooldown,       \* Button._cooldown
    text_size,       \* Button.text.size
    text_rect,       \* Button.text.rect
    colors,          \* ColorToggler.colors (<<>> for the other classes)
    index,           \* ColorToggler.index (0-based as in the source)
    background,      \* ColorToggler.background
    fired,           \* the hooks and callbacks the last operation invoked
    last,            \* observer: the last operation, its point and outcome
    n_inside,        \* observer: inside clicks, counted modulo the list length
    was_inside,      \* observer: the previous motion event was inside the rect
    last_hook,       \* observer: the last hover/blur hook invoked so far
    since_click,     \* observer: elapsed time summed since the last inside click
    grid             \* the demo's grid of buttons (used by SpecGrid only)

config == <<kind, size, style, style_hovered, style_on_click, text_size, colors>>
fields == <<rect, is_hovered, active_style, callback, _cooldown, text_rect,
            index, background>>
observers == <<last, n_inside, was_inside, last_hook, since_click>>
vars == <<config, fields, fired, observers, grid>>

\* since_click when no cooldown is owed: before any inside click, and from the
\* update in which the sum reaches COOLDOWN until the next inside click
Idle == COOLDOWN

\* the pixels a rect covers on the screen: the points "inside" it
Contains(r, p) ==
    /\ p[1] \in r.x..(r.x + r.w - 1)
    /\ p[2] \in r.y..(r.y + r.h - 1)

\* the record of an operation: its name, its point, whether it raised,
\* whether the point was inside the rect the component had, whether a
\* cooldown was running when it was called, and update's elapsed_time
OpAt(name, p, raised, elapsed_time) ==
    [op |-> name, pt |-> p, err |-> raised,
     inside |-> (~raised /\ p # NoPoint /\ Contains(rect, p)),
     cooling |-> (_cooldown > 0), dt |-> elapsed_time]

Op(name, p, raised) == OpAt(name, p, raised, 0)

(* ------------------------- the demo's button grid ---------------------- *)
\* grid_dimensions (rows, cols) of the demo, scaled down; one button a cell
GridDims == <<2, 2>>
\* BUTTON_SIZE of the demo, scaled down
GridCell == <<1, 1>>
\* the grid's padding (between adjacent cells) and margin (around the grid)
GridSpacing == [padding |-> 1, margin |-> 1]
\* the container is positioned at Vector2(0, 0)
GridOrigin == <<0, 0>>

Children == 1..(GridDims[1] * GridDims[2])

\* Grid layout: child i (list index i - 1) is in row (i - 1) / cols and
\* column (i - 1) % cols
GridRect(i) ==
    LET row == (i - 1) \div GridDims[2]
        col == (i - 1) % GridDims[2]
    IN  Rect(<<GridOrigin[1] + GridSpacing.margin
                 + col * (GridCell[1] + GridSpacing.padding),
               GridOrigin[2] + GridSpacing.margin
                 + row * (GridCell[2] + GridSpacing.padding)>>, GridCell)

\* the mouse positions over the grid's surface, its margin included
GridPoints ==
    (0..(2 * GridSpacing.margin + GridDims[2] * GridCell[1]
           + (GridDims[2] - 1) * GridSpacing.padding - 1))
    \X (0..(2 * GridSpacing.margin + GridDims[1] * GridCell[2]
              + (GridDims[1] - 1) * GridSpacing.padding - 1))

\* frame times of the demo's clock: an empty frame, a part of the cooldown
\* and the whole cooldown
GridElapsed == {0, 2 * Tick, COOLDOWN}

\* the children whose rect covers a point
Hit(p) == {i \in Children : Contains(GridRect(i), p)}

\* setup_keys: in directory dir, button 1 is ".." and changes directory, the
\* next buttons open the directory's entries (directory 0 lists a directory
\* and a file, directory 1 a file), the rest do nothing
Binding(dir, i) ==
    [dir |-> dir,
     act |-> (IF i = 1 THEN "chdir"
              ELSE IF dir = 0 /\ i = 2 THEN "chdir"
              ELSE IF (dir = 0 /\ i = 3) \/ (dir = 1 /\ i = 2) THEN "show"
              ELSE "noop")]

\* callback=None, the default of Button.__init__
NoCallback == [dir |-> -1, act |-> None]

\* the callback of the demo's blank_button, lambda: None
BlankCallback == [dir |-> -1, act |-> "noop"]

\* a button of the grid after construction, with the demo's three styles
NewButton(cb) ==
    [is_hovered |-> FALSE, active_style |-> STYLE_NORMAL, callback |-> cb,
     _cooldown |-> 0]

Button_set_callback_Reset(b, cb) ==
    [b EXCEPT !.callback = cb, !.active_style = STYLE_NORMAL, !._cooldown = 0]

\* Button.set_callback on a button of the grid
Button_set_callback(b, cb) == [b EXCEPT !.callback = cb]

\* FileBrowser.setup_keys: every button gets the callback of the directory
setup_keys(g) ==
    [g EXCEPT !.btn = [i \in Children |->
                          Button_set_callback(g.btn[i], Binding(g.dir, i))]]

\* FileBrowser.change_dir, called by the callback of a directory button
change_dir(g) == setup_keys([g EXCEPT !.dir = 1 - @])

\* a callback runs: a directory callback changes directory, the others leave
\* the buttons alone
RunCallback(g, cb) == IF cb.act = "chdir" THEN change_dir(g) ELSE g

\* handle_mouse_click and Button._on_click on child i of the grid: the
\* callback bound now is invoked and may rebind every button's callback, then
\* the style and the cooldown of the clicked button are set
ChildClick(g, i, p) ==
    IF collidepoint(GridRect(i), p)
    THEN LET cb == g.btn[i].callback
             g1 == IF cb # NoCallback
                   THEN RunCallback([g EXCEPT !.fired = Append(@, <<i, cb>>)],
                                    cb)
                   ELSE g
         IN  [g1 EXCEPT !.btn[i].active_style = STYLE_ONCLICK,
                        !.btn[i]._cooldown = COOLDOWN]
    ELSE g

\* the container forwards the click to every child, in list order
RECURSIVE ForwardClick(_, _, _)
ForwardClick(g, i, p) ==
    IF i \notin Children THEN g
    ELSE ForwardClick(ChildClick(g, i, p), i + 1, p)

ChildMotion_KeepHover(b, r, p) ==
    LET hover == collidepoint(r, p)
    IN  IF ~b.is_hovered /\ hover
        THEN [b EXCEPT !.active_style = STYLE_HOVERED, !.is_hovered = TRUE]
        ELSE b

\* Component.handle_mouse_motion on a button of the grid with rect r
ChildMotion(b, r, p) ==
    LET hover == collidepoint(r, p)
    IN  IF b.is_hovered /\ ~hover
        THEN [b EXCEPT !.active_style = STYLE_NORMAL, !.is_hovered = hover]
        ELSE IF ~b.is_hovered /\ hover
        THEN [b EXCEPT !.active_style = STYLE_HOVERED, !.is_hovered = hover]
        ELSE [b EXCEPT !.is_hovered = hover]

\* Button.update on a button of the grid
ChildUpdate(b, elapsed_time) ==
    IF b._cooldown > 0
    THEN LET c == IF b._cooldown - elapsed_time > 0
                  THEN b._cooldown - elapsed_time ELSE 0
         IN  [b EXCEPT !._cooldown = c,
                       !.active_style = (IF c = 0
                                         THEN (IF b.is_hovered
                                               THEN STYLE_HOVERED
                                               ELSE STYLE_NORMAL)
                                         ELSE @)]
    ELSE b

\* the grid after FileBrowser.__init__: blank buttons positioned by
\* container.set_pos and bound by setup_keys
GridInit ==
    setup_keys([btn |-> [i \in Children |-> NewButton(BlankCallback)],
                dir |-> 0,
                fired |-> <<>>,
                last |-> [op |-> "init", hit |-> {}]])

(* ---------------------------- construction ---------------------------- *)
\* Component.__init__, Button.__init__ and ColorToggler.__init__
Init ==
    /\ kind \in {"Component", "Button", "ColorToggler"}
    /\ \E shape \in Shapes :
          /\ size = shape.size
          /\ text_size = (IF kind = "Component" THEN <<0, 0>> ELSE shape.text)
    /\ rect = NoRect
    /\ style \in {STYLE_NORMAL, None}
    /\ style_hovered \in {STYLE_HOVERED, None}
    /\ style_on_click \in (IF kind = "Component" THEN {None}
                                                  ELSE {STYLE_ONCLICK, None})
    /\ is_hovered = FALSE
    /\ active_style = style
    /\ callback \in (IF kind = "Component" THEN {None} ELSE {"f", None})
    /\ _cooldown = 0
    /\ text_rect = NoRect
    /\ colors \in (IF kind = "ColorToggler" THEN ColorLists ELSE {<<>>})
    /\ index = 0
    /\ background = (IF kind = "ColorToggler" THEN colors[index + 1] ELSE 0)
    /\ fired = <<>>
    /\ last = [op |-> "init", pt |-> NoPoint, err |-> FALSE, inside |-> FALSE,
               cooling |-> FALSE, dt |-> 0]
    /\ n_inside = 0
    /\ was_inside = FALSE
    /\ last_hook = None
    /\ since_click = Idle
    /\ grid = GridInit

(* ------------------------------ helpers ------------------------------- *)
_assert_initialized_Never == FALSE

\* Component._assert_initialized: TRUE when it raises
_assert_initialized == rect = NoRect

RevertStyle_AlwaysHovered == style_hovered

\* the style Button.update restores when the cooldown expires
RevertStyle == IF is_hovered THEN style_hovered ELSE style

CooldownActive_Always == kind # "Component"

\* Button.update's guard: if self._cooldown > 0 (Component.update does nothing)
CooldownActive == kind # "Component" /\ _cooldown > 0

CooldownAfter_Unclamped(elapsed_time) == _cooldown - elapsed_time

CooldownAfter_NoProgress(elapsed_time) == _cooldown

\* the cooldown after update(elapsed_time): max(_cooldown - elapsed_time, 0)
CooldownAfter(elapsed_time) ==
    IF _cooldown - elapsed_time > 0 THEN _cooldown - elapsed_time ELSE 0

(* ------------------------------ set_pos ------------------------------- *)
\* Button.set_pos: the label's origin, centerx - width / 2 and
\* centery - height / 2 as floats, made integers by Rect
text_pos(r) ==
    <<TruncHalf(2 * centerx(r) - text_size[1]),
      TruncHalf(2 * centery(r) - text_size[2])>>

set_pos_StaleLabel(pos) ==
    /\ rect' = Rect(pos, size)
    /\ text_rect' = (IF kind = "Component" THEN text_rect
                     ELSE Rect(text_pos(rect), text_size))
    /\ fired' = <<>>
    /\ last' = [op |-> "set_pos", pt |-> pos, err |-> FALSE,
                inside |-> FALSE, cooling |-> (_cooldown > 0), dt |-> 0]
    /\ UNCHANGED <<config, is_hovered, active_style, callback, _cooldown,
                   index, background, n_inside, was_inside, last_hook,
                   since_click>>

set_pos_NoLabel(pos) ==
    /\ rect' = Rect(pos, size)
    /\ fired' = <<>>
    /\ last' = [op |-> "set_pos", pt |-> pos, err |-> FALSE,
                inside |-> FALSE, cooling |-> (_cooldown > 0), dt |-> 0]
    /\ UNCHANGED <<config, is_hovered, active_style, callback, _cooldown,
                   text_rect, index, background, n_inside, was_inside,
                   last_hook, since_click>>

\* Component.set_pos, and Button.set_pos which also centres the label
set_pos(pos) ==
    LET r == Rect(pos, size)
    IN  /\ rect' = r
        /\ text_rect' = (IF kind = "Component" THEN text_rect
                         ELSE Rect(text_pos(r), text_size))
        /\ fired' = <<>>
        /\ last' = [op |-> "set_pos", pt |-> pos, err |-> FALSE,
                    inside |-> FALSE, cooling |-> (_cooldown > 0), dt |-> 0]
        /\ UNCHANGED <<config, is_hovered, active_style, callback, _cooldown,
                       index, background, n_inside, was_inside, last_hook,
                       since_click>>

(* ------------------------------- click -------------------------------- *)
\* the calls Button._on_click makes: the hook itself, then the callback if
\* one is bound
InvokeCallback_NotWhileCooling ==
    IF callback # None /\ _cooldown = 0 THEN <<"_on_click", callback>>
    ELSE <<"_on_click">>

InvokeCallback ==
    IF callback # None THEN <<"_on_click", callback>> ELSE <<"_on_click">>

Button_on_click_KeepRemaining ==
    /\ fired' = InvokeCallback
    /\ active_style' = style_on_click
    /\ _cooldown' = (IF _cooldown > 0 THEN _cooldown ELSE COOLDOWN)
    /\ UNCHANGED <<index, background>>

\* Button._on_click
Button_on_click ==
    /\ fired' = InvokeCallback
    /\ active_style' = style_on_click
    /\ _cooldown' = COOLDOWN
    /\ UNCHANGED <<index, background>>

ColorToggler_on_click_StaleBackground ==
    /\ fired' = <<"_on_click">>
    /\ index' = (index + 1) % Len(colors)
    /\ background' = colors[index + 1]
    /\ UNCHANGED <<active_style, _cooldown>>

\* ColorToggler._on_click
ColorToggler_on_click ==
    /\ fired' = <<"_on_click">>
    /\ index' = (index + 1) % Len(colors)
    /\ background' = colors[index' + 1]
    /\ UNCHANGED <<active_style, _cooldown>>

\* Component._on_click
Component_on_click ==
    /\ fired' = <<"_on_click">>
    /\ UNCHANGED <<active_style, _cooldown, index, background>>

\* the click hook of the constructed class
_on_click ==
    CASE kind = "Button" -> Button_on_click
      [] kind = "ColorToggler" -> ColorToggler_on_click
      [] OTHER -> Component_on_click

ClickHit_InclusiveEdges(mouse_pos) == collidepoint_InclusiveEdges(rect, mouse_pos)

\* the hit test of handle_mouse_click
ClickHit(mouse_pos) == collidepoint(rect, mouse_pos)

\* Component.handle_mouse_click
handle_mouse_click(mouse_pos) ==
    /\ IF _assert_initialized
       THEN /\ last' = Op("click", mouse_pos, TRUE)
            /\ fired' = <<>>
            /\ UNCHANGED <<active_style, _cooldown, index, background>>
       ELSE /\ last' = Op("click", mouse_pos, FALSE)
            /\ IF ClickHit(mouse_pos)
               THEN _on_click
               ELSE /\ fired' = <<>>
                    /\ UNCHANGED <<active_style, _cooldown, index, background>>
    /\ since_click' = (IF last'.inside THEN 0 ELSE since_click)
    /\ n_inside' = (IF last'.inside /\ kind = "ColorToggler"
                    THEN (n_inside + 1) % Len(colors) ELSE n_inside)
    /\ UNCHANGED <<config, rect, is_hovered, callback, text_rect,
                   was_inside, last_hook>>

(* ------------------------------- motion ------------------------------- *)
\* the style the not-hovered -> hovered branch selects
HoveredStyle_Unguarded == style_hovered

HoveredStyle == IF style_hovered # None THEN style_hovered ELSE active_style

\* the value handle_mouse_motion leaves in is_hovered
HoverFlag_Stale(hover) == is_hovered

HoverFlag(hover) == hover

\* Component.handle_mouse_motion
handle_mouse_motion(mouse_pos) ==
    /\ IF _assert_initialized
       THEN /\ last' = Op("motion", mouse_pos, TRUE)
            /\ fired' = <<>>
            /\ UNCHANGED <<active_style, is_hovered, was_inside, last_hook>>
       ELSE LET hover == collidepoint(rect, mouse_pos)
            IN  /\ last' = Op("motion", mouse_pos, FALSE)
                /\ IF is_hovered /\ ~hover
                   THEN /\ active_style' = style
                        /\ fired' = <<"_on_blur">>
                        /\ last_hook' = "_on_blur"
                   ELSE IF ~is_hovered /\ hover
                   THEN /\ active_style' = HoveredStyle
                        /\ fired' = <<"_on_hover">>
                        /\ last_hook' = "_on_hover"
                   ELSE /\ fired' = <<>>
                        /\ UNCHANGED <<active_style, last_hook>>
                /\ is_hovered' = HoverFlag(hover)
                /\ was_inside' = last'.inside
    /\ UNCHANGED <<config, rect, callback, _cooldown, text_rect, index,
                   background, n_inside, since_click>>

(* ------------------------------- update ------------------------------- *)
\* Button.update (inherited by ColorToggler); Component.update is a no-op
update(elapsed_time) ==
    /\ _cooldown - elapsed_time <= COOLDOWN + MaxOver * Tick
    /\ since_click = Idle \/ since_click + elapsed_time >= -(MaxOver * Tick)
    /\ IF CooldownActive
       THEN /\ _cooldown' = CooldownAfter(elapsed_time)
            /\ active_style' = (IF _cooldown' = 0 THEN RevertStyle
                                ELSE active_style)
       ELSE UNCHANGED <<_cooldown, active_style>>
    /\ since_click' = (IF since_click = Idle
                          \/ since_click + elapsed_time >= COOLDOWN
                       THEN Idle ELSE since_click + elapsed_time)
    /\ fired' = <<>>
    /\ last' = OpAt("update", NoPoint, FALSE, elapsed_time)
    /\ UNCHANGED <<config, rect, is_hovered, callback, text_rect, index,
                   background, n_inside, was_inside, last_hook>>

(* ------------------------------- render ------------------------------- *)
\* Component.render; Button._render renders the label, which asserts too
render ==
    /\ last' = Op("render", NoPoint,
                  _assert_initialized
                    \/ (kind # "Component" /\ text_rect = NoRect))
    /\ fired' = <<>>
    /\ UNCHANGED <<config, fields, n_inside, was_inside, last_hook,
                   since_click>>

(* ---------------------------- set_callback ---------------------------- *)
\* Button.set_callback
set_callback(cb) ==
    /\ kind # "Component"
    /\ callback' = cb
    /\ fired' = <<>>
    /\ last' = Op("set_callback", NoPoint, FALSE)
    /\ UNCHANGED <<config, rect, is_hovered, active_style, _cooldown,
                   text_rect, index, background, n_inside, was_inside,
                   last_hook, since_click>>

(* ---------------------------- specification --------------------------- *)
Next ==
    \/ \E pos \in Origins : set_pos(pos) /\ UNCHANGED grid
    \/ \E mouse_pos \in Points :
          handle_mouse_click(mouse_pos) /\ UNCHANGED grid
    \/ \E mouse_pos \in Points :
          handle_mouse_motion(mouse_pos) /\ UNCHANGED grid
    \/ \E elapsed_time \in Elapsed : update(elapsed_time) /\ UNCHANGED grid
    \/ render /\ UNCHANGED grid
    \/ \E cb \in Callbacks \cup {None} : set_callback(cb) /\ UNCHANGED grid

Spec == Init /\ [][Next]_vars

\* The geometry specification: the same operations on a Component or a fully
\* styled Button of every shape in GeomShapes.
InitGeom ==
    /\ kind \in {"Component", "Button"}
    /\ \E shape \in GeomShapes :
          /\ size = shape.size
          /\ text_size = (IF kind = "Component" THEN <<0, 0>> ELSE shape.text)
    /\ rect = NoRect
    /\ style = STYLE_NORMAL
    /\ style_hovered = STYLE_HOVERED
    /\ style_on_click = (IF kind = "Component" THEN None ELSE STYLE_ONCLICK)
    /\ is_hovered = FALSE
    /\ active_style = style
    /\ callback = (IF kind = "Component" THEN None ELSE "f")
    /\ _cooldown = 0
    /\ text_rect = NoRect
    /\ colors = <<>>
    /\ index = 0
    /\ background = 0
    /\ fired = <<>>
    /\ last = [op |-> "init", pt |-> NoPoint, err |-> FALSE, inside |-> FALSE,
               cooling |-> FALSE, dt |-> 0]
    /\ n_inside = 0
    /\ was_inside = FALSE
    /\ last_hook = None
    /\ since_click = Idle
    /\ grid = GridInit

SpecGeom == InitGeom /\ [][Next]_vars

\* The grid specification: the demo's container forwards every event to every
\* button of the grid; the single component above stays as constructed.
InitGrid == InitGeom /\ kind = "Component" /\ size = <<1, 1>>

\* container.handle_mouse_click(mouse_pos)
grid_handle_mouse_click(mouse_pos) ==
    /\ grid' = [ForwardClick([grid EXCEPT !.fired = <<>>], 1, mouse_pos)
                   EXCEPT !.last = [op |-> "click", hit |-> Hit(mouse_pos)]]
    /\ UNCHANGED <<config, fields, fired, observers>>

\* container.handle_mouse_motion(mouse_pos)
grid_handle_mouse_motion(mouse_pos) ==
    /\ grid' = [grid EXCEPT
                   !.btn = [i \in Children |->
                               ChildMotion(grid.btn[i], GridRect(i), mouse_pos)],
                   !.fired = <<>>,
                   !.last = [op |-> "motion", hit |-> Hit(mouse_pos)]]
    /\ UNCHANGED <<config, fields, fired, observers>>

\* container.update(elapsed_time)
grid_update(elapsed_time) ==
    /\ grid' = [grid EXCEPT
                   !.btn = [i \in Children |->
                               ChildUpdate(grid.btn[i], elapsed_time)],
                   !.fired = <<>>,
                   !.last = [op |-> "update", hit |-> {}]]
    /\ UNCHANGED <<config, fields, fired, observers>>

NextGrid ==
    \/ \E mouse_pos \in GridPoints : grid_handle_mouse_click(mouse_pos)
    \/ \E mouse_pos \in GridPoints : grid_handle_mouse_motion(mouse_pos)
    \/ \E elapsed_time \in GridElapsed : grid_update(elapsed_time)

SpecGrid == InitGrid /\ [][NextGrid]_vars

\* The frame-loop specification: a Button driven as by the demo's main loop,
\* which handles the pending events and then calls update with the time the
\* clock measured since the last frame: never negative, and positive again
\* and again as time passes.
InitLoop == Init /\ kind = "Button"

\* update with the elapsed time of a frame in which time has passed
TickUpdate ==
    /\ \E elapsed_time \in Elapsed : elapsed_time > 0 /\ update(elapsed_time)
    /\ UNCHANGED grid

\* update in a frame in which the clock measured no time
IdleUpdate == update(0) /\ UNCHANGED grid

NextLoop ==
    \/ \E pos \in Origins : set_pos(pos) /\ UNCHANGED grid
    \/ \E mouse_pos \in Points :
          handle_mouse_click(mouse_pos) /\ UNCHANGED grid
    \/ \E mouse_pos \in Points :
          handle_mouse_motion(mouse_pos) /\ UNCHANGED grid
    \/ TickUpdate
    \/ IdleUpdate
    \/ render /\ UNCHANGED grid
    \/ \E cb \in Callbacks \cup {None} : set_callback(cb) /\ UNCHANGED grid

SpecLoop == InitLoop /\ [][NextLoop]_vars /\ WF_vars(TickUpdate)

(* ------------------------------- claims ------------------------------- *)
\* a button: the Button class or its subclass ColorToggler
IsButton == kind # "Component"

Positioned == rect # NoRect

\* the last operation was this one and did not raise
Did(name) == last.op = name /\ ~last.err

\* the number of callback invocations among the calls of the last operation
CallbackCalls == Cardinality({i \in 1..Len(fired) : fired[i] \in Callbacks})

\* C1: in every reachable state of a positioned Button, a running cooldown
\* (_cooldown > 0) implies active_style = style_on_click; no motion or click
\* event takes the button out of the clicked visual state.
C1_CooldownHoldsOnclickStyle ==
    (IsButton /\ Positioned /\ _cooldown > 0) => active_style = style_on_click

\* C2: for a Button constructed with a non-null normal style, active_style
\* is always one of style, style_hovered, style_on_click and never None.
C2_ActiveStyleNeverNone ==
    (kind = "Button" /\ style # None) =>
        /\ active_style \in {style, style_hovered, style_on_click}
        /\ active_style # None

\* C3: from a click inside a positioned Button until the update calls since
\* that click total at least COOLDOWN, active_style = style_on_click (that
\* includes the state immediately after the click).
C3_OnclickStyleUntilElapsed ==
    (kind = "Button" /\ Positioned /\ since_click # Idle) =>
        active_style = style_on_click

\* C4: every click inside a positioned Button with a callback bound invokes
\* that callback exactly once, also when a cooldown is running, and a click
\* outside the rect invokes nothing and changes no field.
C4_CallbackOncePerInsideClick ==
    [][(kind = "Button" /\ last'.op = "click" /\ ~last'.err) =>
         IF last'.inside
         THEN /\ callback # None => fired' = <<"_on_click", callback>>
              /\ callback = None => fired' = <<"_on_click">>
         ELSE /\ fired' = <<>>
              /\ UNCHANGED fields]_vars

C4_Witness ==
    /\ kind = "Button" /\ Did("click") /\ last.inside /\ last.cooling
    /\ CallbackCalls = 1

\* C5: on a component that was never positioned, handle_mouse_click,
\* handle_mouse_motion and render raise, invoke no hook and leave is_hovered
\* and active_style as they were.
C5_UninitializedRaises ==
    [][(~Positioned /\ last'.op \in {"click", "motion", "render"}) =>
         /\ last'.err
         /\ fired' = <<>>
         /\ UNCHANGED <<is_hovered, active_style>>]_vars

C5_Witness ==
    /\ ~Positioned /\ last.op = "motion" /\ last.err
    /\ last.pt = <<0, 0>> /\ ~is_hovered

\* C6: a motion event on a positioned component invokes _on_hover exactly
\* once when it crosses from outside to inside, _on_blur exactly once when it
\* crosses from inside to outside, and nothing otherwise; hover and blur
\* calls alternate, starting with hover.
C6_HooksOnEdgesOnly ==
    [][(last'.op = "motion" /\ ~last'.err) =>
         /\ fired' = (IF ~was_inside /\ last'.inside THEN <<"_on_hover">>
                      ELSE IF was_inside /\ ~last'.inside THEN <<"_on_blur">>
                      ELSE <<>>)
         /\ fired' = <<"_on_hover">> => last_hook # "_on_hover"
         /\ fired' = <<"_on_blur">> => last_hook = "_on_hover"]_vars

C6_Witness ==
    /\ Did("motion") /\ fired = <<"_on_blur">> /\ last_hook = "_on_blur"
    /\ ~was_inside

\* C7: handle_mouse_motion(P) on a positioned component ends with is_hovered
\* equal to "P is inside rect", whatever the state before; a second
\* consecutive handle_mouse_motion(P) changes no field and invokes no hook.
C7_MotionSetsHoverIdempotent ==
    [][(last'.op = "motion" /\ ~last'.err) =>
         /\ is_hovered' = Contains(rect', last'.pt)
         /\ (Did("motion") /\ last'.pt = last.pt) =>
                (fired' = <<>> /\ UNCHANGED fields)]_vars

C7_Witness ==
    /\ Did("motion") /\ is_hovered /\ fired = <<>> /\ last.pt = <<1, 1>>

\* C8: handle_mouse_motion changes active_style only on a hover edge:
\* not hovered -> hovered sets it to style_hovered if there is one and leaves
\* it otherwise, hovered -> not hovered sets it to style, steady state
\* leaves it.
C8_MotionStyleTable ==
    [][(last'.op = "motion" /\ ~last'.err) =>
         active_style' =
            (IF ~is_hovered /\ is_hovered'
             THEN (IF style_hovered # None THEN style_hovered
                   ELSE active_style)
             ELSE IF is_hovered /\ ~is_hovered' THEN style
             ELSE active_style)]_vars

C8_Witness ==
    /\ Did("motion") /\ fired = <<"_on_hover">> /\ style_hovered = None
    /\ style # None /\ active_style = style

\* C9: immediately after a click inside a positioned ColorToggler,
\* active_style = style_on_click and the cooldown timer is running, as for a
\* plain Button.
C9_TogglerKeepsCooldown ==
    (kind = "ColorToggler" /\ Did("click") /\ last.inside) =>
        (active_style = style_on_click /\ _cooldown > 0)

\* C10: a click inside a positioned ColorToggler advances index by one
\* modulo the length of colors, a click outside leaves it, background is
\* colors[index], index stays within the list, and after every N-th inside
\* click (N the length) the background is the initial one again.
C10_TogglerCycles ==
    /\ [](kind = "ColorToggler" =>
            /\ index \in 0..(Len(colors) - 1)
            /\ background = colors[index + 1]
            /\ n_inside = 0 => background = colors[1])
    /\ [][(kind = "ColorToggler" /\ last'.op = "click" /\ ~last'.err) =>
            index' = (IF last'.inside THEN (index + 1) % Len(colors)
                      ELSE index)]_vars

C10_Witness ==
    /\ kind = "ColorToggler" /\ Len(colors) = 2 /\ Did("click")
    /\ last.inside /\ n_inside = 0 /\ index = 0

\* the click hook was among the calls of an operation
ClickHookCalled(f) == Len(f) > 0 /\ f[1] = "_on_click"

\* twice the distance, on each axis, from the centre of the button's rect to
\* the centre of the label's rect
CentreOffset2 ==
    <<(2 * text_rect.x + text_rect.w) - (2 * rect.x + rect.w),
      (2 * text_rect.y + text_rect.h) - (2 * rect.y + rect.h)>>

\* C12: set_pos(p) yields rect = Rect(p, size) and the label position that
\* belongs to that rect from any prior state, a repeated set_pos(p) changes
\* nothing, and rect is None exactly as long as set_pos was never called.
C12_SetPosIdempotent ==
    /\ [](last.op = "init" => rect = NoRect)
    /\ [][/\ (rect' = NoRect) <=> (rect = NoRect /\ last'.op # "set_pos")
          /\ last'.op = "set_pos" =>
               /\ rect' = [x |-> last'.pt[1], y |-> last'.pt[2],
                           w |-> size[1], h |-> size[2]]
               /\ IsButton => text_rect' = Rect(text_pos(rect'), text_size)
               /\ (last.op = "set_pos" /\ last.pt = last'.pt) =>
                      UNCHANGED fields]_vars

C12_Witness ==
    /\ last.op = "set_pos" /\ last.pt = <<1, 1>> /\ kind = "Button"
    /\ is_hovered /\ rect.x = 1 /\ text_rect # NoRect

C15_CooldownBounds ==
    /\ [](_cooldown >= 0)
    /\ [][/\ (last'.op = "update" /\ last'.dt >= 0) =>
               /\ _cooldown' <= _cooldown
               /\ last'.dt >= _cooldown => _cooldown' = 0
               /\ last'.dt < _cooldown => _cooldown' = _cooldown - last'.dt
          /\ (~(last'.op = "update" /\ last'.dt < 0)
                /\ _cooldown <= COOLDOWN) => _cooldown' \in 0..COOLDOWN]_vars

C15_Witness ==
    /\ kind = "Button" /\ Did("update") /\ last.cooling
    /\ last.dt = MaxTicks * Tick /\ _cooldown = 0

C18_SameHitTest ==
    [][/\ (Did("motion") /\ last'.op = "click" /\ ~last'.err
             /\ last'.pt = last.pt) =>
            (ClickHookCalled(fired') <=> is_hovered)
       /\ (Did("click") /\ last'.op = "motion" /\ ~last'.err
             /\ last'.pt = last.pt) =>
            (ClickHookCalled(fired) <=> is_hovered')]_vars

C18_Witness ==
    /\ Did("click") /\ fired = <<>> /\ ~is_hovered /\ was_inside = FALSE
    /\ last.pt = <<rect.x + rect.w, rect.y>>

\* C19: update invokes no callback and no hook and leaves is_hovered, rect,
\* the callback and the label alone; with no cooldown running it changes no
\* field at all.
C19_UpdateFrame ==
    [][last'.op = "update" =>
         /\ fired' = <<>>
         /\ UNCHANGED <<rect, is_hovered, callback, text_rect, index,
                        background>>
         /\ _cooldown = 0 => UNCHANGED fields]_vars

C19_Witness ==
    /\ kind = "Button" /\ Did("update") /\ ~last.cooling /\ last.dt > 0
    /\ is_hovered /\ active_style = style_hovered /\ style_hovered # None
    /\ since_click = Idle

\* C20: handle_mouse_click never changes is_hovered, handle_mouse_motion
\* never changes _cooldown and invokes no callback; as long as no motion
\* event has entered the rect is_hovered is false, and the cooldown's expiry
\* then reverts active_style to the normal style.
C20_ClickMotionFrame ==
    /\ [](last_hook = None => ~is_hovered)
    /\ [][/\ last'.op = "click" => is_hovered' = is_hovered
          /\ last'.op = "motion" =>
               /\ _cooldown' = _cooldown
               /\ \A i \in 1..Len(fired') : fired'[i] \notin Callbacks
          /\ (kind = "Button" /\ last_hook = None /\ last'.op = "update"
                /\ _cooldown > 0 /\ _cooldown' = 0) =>
               active_style' = style]_vars

C20_Witness ==
    /\ kind = "Button" /\ Did("update") /\ last.cooling /\ _cooldown = 0
    /\ last_hook = None /\ style # None /\ active_style = style
    /\ style_hovered # None

\* C16: in the frame loop, a Button whose cooldown is running reaches
\* _cooldown = 0 unless a further inside click arrives while it is running;
\* motion events in between do not postpone the expiry.
C16_CooldownExpires ==
    (kind = "Button" /\ _cooldown > 0) ~>
        (_cooldown = 0 \/ (Did("click") /\ last.inside /\ last.cooling))

C16_Witness ==
    /\ kind = "Button" /\ Did("update") /\ last.cooling /\ _cooldown = 0
    /\ last_hook = "_on_blur" /\ ~is_hovered /\ since_click = Idle

(* ------------------------------ the grid ------------------------------- *)
\* the visual state of a button of the grid
Visual(b) == <<b.is_hovered, b.active_style, b._cooldown>>

\* a button of the grid in the normal state
Normal(b) == ~b.is_hovered /\ b.active_style = STYLE_NORMAL /\ b._cooldown = 0

\* the callbacks a click that hit the children in `hit` must have invoked,
\* given the buttons as they were when the click arrived
Expected(btn, hit) ==
    IF hit = {} THEN <<>>
    ELSE LET k == CHOOSE i \in hit : TRUE
         IN  << <<k, btn[k].callback>> >>

\* C11: every button holds the callback of the latest set_callback (the
\* latest setup_keys), so a later click invokes that one and never the one
\* bound before; a click whose callback rebinds every button's callback still
\* invokes only the callback that was bound when the click arrived, the
\* clicked button ends the click with style_on_click and the full cooldown,
\* and no button outside the point changes is_hovered, active_style or
\* cooldown.
C11_RebindingDuringDispatch ==
    /\ [](\A i \in Children : grid.btn[i].callback = Binding(grid.dir, i))
    /\ [][grid'.last.op = "click" =>
            LET hit == grid'.last.hit
            IN  /\ grid'.fired = Expected(grid.btn, hit)
                /\ \A k \in hit :
                     /\ grid'.btn[k].active_style = STYLE_ONCLICK
                     /\ grid'.btn[k]._cooldown = COOLDOWN
                     /\ grid'.btn[k].is_hovered = grid.btn[k].is_hovered
                /\ \A j \in Children \ hit :
                     Visual(grid'.btn[j]) = Visual(grid.btn[j])]_vars

\* a click on button 2, a directory in directory 0, has changed directory and
\* rebound every callback while button 3 was in the middle of its cooldown
C11_Witness ==
    /\ grid.last = [op |-> "click", hit |-> {2}]
    /\ grid.fired = << <<2, Binding(0, 2)>> >>
    /\ grid.dir = 1
    /\ grid.btn[2].callback = Binding(1, 2)
    /\ grid.btn[2].active_style = STYLE_ONCLICK
    /\ grid.btn[2]._cooldown = COOLDOWN
    /\ grid.btn[3].callback = Binding(1, 3)
    /\ grid.btn[3].active_style = STYLE_ONCLICK
    /\ grid.btn[3]._cooldown \in 1..(COOLDOWN - 1)

====
